---- MODULE Spec2Model ----
(***************************************************************************)
(* Model of fragment_cheker/go_fragmentChacker/main.go: the username       *)
(* checker's bounded-concurrency dispatcher (UsernameChecker.Run), its     *)
(* units of work (checkUsername, logResult, appendToFile,                  *)
(* incrementProcessed), the progress ticker (GetProgress), the signal      *)
(* handler goroutine that closes stopChan, and main's startup and exit.    *)
(***************************************************************************)
EXTENDS Integers, Sequences, FiniteSets, TLC

\* Bounds of the model.
MaxLen == 2        \* longest input list (lines of the input file)
MaxThreads == 2    \* largest value of the -threads flag

VARIABLES
    mainPc,      \* position of main()
    threads,     \* uc.threads (the -threads flag)
    usernames,   \* uc.usernames
    file,        \* content of the output file, a sequence of lines
    runPc,       \* position of UsernameChecker.Run
    idx,         \* index of the username the for loop of Run is at
    sem,         \* number of elements in the buffered channel sem
    wg,          \* counter of uc.wg
    stopChan,    \* "open" or "closed"
    wpc,         \* position of the goroutine launched for each username
    path,        \* control path checkUsername takes in each goroutine
    step,        \* number of calls of Calls(path) each goroutine has completed
    resultsMu,   \* holder of uc.resultsMu (0: unlocked)
    results,     \* uc.results
    processed,   \* uc.processed
    title,       \* last window title set by the progress updater
    sigChan,     \* number of signals buffered in sigChan
    sigPc,       \* position of the signal handler goroutine
    launched,    \* history: usernames in the order their goroutine was started
    stopAt,      \* history: value of idx when stopChan was closed (0: not closed)
    fatal,       \* history: the startup step that failed ("none": none did)
    late,        \* history: goroutines started while stopChan was already closed
    cIn,         \* classification: the username and the response given to it
    cOut         \* classification: the result line computed (<<>>: not yet)

vars == <<mainPc, threads, usernames, file, runPc, idx, sem, wg, stopChan, wpc,
          path, step, resultsMu, results, processed, title, sigChan, sigPc,
          launched, stopAt, fatal, late, cIn, cOut>>

\* The control paths of checkUsername, one per place where it builds a result.
Paths == {"NewRequestErr", "DoErr", "Free", "ParseErr", "Known", "Unknown", "NotFound"}

\* Content the output file may hold from an earlier run.
OldFile == <<"stale">>

Init ==
    /\ mainPc = "clear_output"
    /\ threads \in 0..MaxThreads
    /\ usernames = <<>>
    /\ file = OldFile
    /\ runPc = "idle"
    /\ idx = 0
    /\ sem = 0
    /\ wg = 0
    /\ stopChan = "open"
    /\ wpc = <<>>
    /\ path = <<>>
    /\ step = <<>>
    /\ resultsMu = 0
    /\ results = <<>>
    /\ processed = 0
    /\ title = <<>>
    /\ sigChan = 0
    /\ sigPc = "idle"
    /\ launched = <<>>
    /\ stopAt = 0
    /\ fatal = "none"
    /\ late = 0
    /\ cIn = "none"
    /\ cOut = <<>>

\* The goroutines of the process run only while main has not exited.
Alive == mainPc = "run"

\* The usernames an input file of n non-empty lines yields.
InputOf(n) == [k \in 1..n |-> k]

\* The result line "@<username> | <status>\n" of a username on path p. The lines
\* of a run are told apart by their username; the status text is the path's.
Line(u, p) == u

\* Mutants of Calls: the HTML parse error path returns without incrementProcessed;
\* the known-status path returns without it as well;
\* the request error path does not return and reaches the final
\* incrementProcessed too; the Free path counts before it records.
CallsParseErrNoIncrement(p) ==
    IF p = "ParseErr" THEN <<"logResult">>
    ELSE <<"logResult", "incrementProcessed">>
CallsKnownNoIncrement(p) ==
    IF p = "Known" THEN <<"logResult">>
    ELSE <<"logResult", "incrementProcessed">>
CallsDoErrTwoIncrements(p) ==
    IF p = "DoErr" THEN <<"logResult", "incrementProcessed", "incrementProcessed">>
    ELSE <<"logResult", "incrementProcessed">>
CallsFreeIncrementFirst(p) ==
    IF p = "Free" THEN <<"incrementProcessed", "logResult">>
    ELSE <<"logResult", "incrementProcessed">>

\* The calls on shared state checkUsername makes on each control path, in order.
Calls(p) ==
    CASE p = "NewRequestErr" -> <<"logResult", "incrementProcessed">>
      [] p = "DoErr"         -> <<"logResult", "incrementProcessed">>
      [] p = "Free"          -> <<"logResult", "incrementProcessed">>
      [] p = "ParseErr"      -> <<"logResult", "incrementProcessed">>
      [] p = "Known"         -> <<"logResult", "incrementProcessed">>
      [] p = "Unknown"       -> <<"logResult", "incrementProcessed">>
      [] p = "NotFound"      -> <<"logResult", "incrementProcessed">>

\* Where a goroutine on path p goes once it has completed k of its calls:
\* the next call of checkUsername, or the <-sem that follows its return.
NextPc(p, k) == IF k < Len(Calls(p)) THEN Calls(p)[k + 1] ELSE "release"

\* The locals of checkUsername (its path and how far it is) after k calls on
\* path p: they are gone once checkUsername has returned.
NextPath(p, k) == IF k < Len(Calls(p)) THEN p ELSE "none"
NextStep(p, k) == IF k < Len(Calls(p)) THEN k ELSE 0

\* ---------------------------------------------------------------- main

\* os.OpenFile(outputPath, O_CREATE|O_WRONLY|O_TRUNC) succeeds: the file is emptied.
ClearOutputOk ==
    /\ mainPc = "clear_output"
    /\ file' = <<>>
    /\ mainPc' = "read_input"
    /\ UNCHANGED <<threads, usernames, runPc, idx, sem, wg, stopChan, wpc, path,
                   step, resultsMu, results, processed, title, sigChan, sigPc,
                   launched, stopAt,
                   fatal, late, cIn, cOut>>

\* Mutant of FatalPc: the failure is logged and main goes on to read the input.
FatalPcGoesOn == "read_input"

\* Where main goes when a startup step fails: logger.Critical and os.Exit(1).
FatalPc == "exited"

\* os.OpenFile fails: logger.Critical and os.Exit(1).
ClearOutputFail ==
    /\ mainPc = "clear_output"
    /\ mainPc' = FatalPc
    /\ fatal' = "output"
    /\ UNCHANGED <<threads, usernames, file, runPc, idx, sem, wg, stopChan, wpc,
                   path, step, resultsMu, results, processed, title, sigChan,
                   sigPc, launched, stopAt, late, cIn, cOut>>

\* Mutant of LoopPc: the loop goes to sem <- without the select on stopChan.
LoopPcSkipsSelect(i, n) == IF i > n THEN "wait" ELSE "acquire"

\* The first iteration of the for loop of Run over a list of n usernames.
LoopPc(i, n) == IF i > n THEN "wait" ELSE "select"

\* readLines succeeds; NewUsernameChecker, the signal handler and the progress
\* updater are started and checker.Run() is entered.
ReadLinesOk ==
    /\ mainPc = "read_input"
    /\ \E n \in 0..MaxLen :
          /\ usernames' = InputOf(n)
          /\ wpc' = [k \in 1..n |-> "none"]
          /\ path' = [k \in 1..n |-> "none"]
          /\ step' = [k \in 1..n |-> 0]
          /\ runPc' = LoopPc(1, n)
    /\ idx' = 1
    /\ sigPc' = "recv"
    /\ mainPc' = "run"
    /\ UNCHANGED <<threads, file, sem, wg, stopChan, resultsMu, results,
                   processed, title, sigChan, launched, stopAt,
                   fatal, late, cIn, cOut>>

\* readLines fails: logger.Critical and os.Exit(1).
ReadLinesFail ==
    /\ mainPc = "read_input"
    /\ mainPc' = FatalPc
    /\ fatal' = "input"
    /\ UNCHANGED <<threads, usernames, file, runPc, idx, sem, wg, stopChan, wpc,
                   path, step, resultsMu, results, processed, title, sigChan,
                   sigPc, launched, stopAt, late, cIn, cOut>>

\* checker.Run() has returned: close(done), the final log lines, and main returns,
\* which ends the process and every goroutine still running.
MainReturn ==
    /\ Alive
    /\ runPc = "returned"
    /\ mainPc' = "exited"
    /\ UNCHANGED <<threads, usernames, file, runPc, idx, sem, wg, stopChan, wpc,
                   path, step, resultsMu, results, processed, title, sigChan,
                   sigPc, launched, stopAt,
                   fatal, late, cIn, cOut>>

\* ----------------------------------------------------- UsernameChecker.Run

\* Mutant of SelectDefault: the loop never looks at stopChan.
SelectIgnoresStop == TRUE

\* Whether the select of Run takes its default case: only when no receive from
\* stopChan is ready, that is when stopChan is not closed.
SelectDefault == stopChan = "open"

\* case <-uc.stopChan: log and return, without uc.wg.Wait().
RunSelectStop ==
    /\ Alive
    /\ runPc = "select"
    /\ ~SelectDefault
    /\ runPc' = "returned"
    /\ UNCHANGED <<mainPc, threads, usernames, file, idx, sem, wg, stopChan, wpc,
                   path, step, resultsMu, results, processed, title, sigChan,
                   sigPc, launched, stopAt,
                   fatal, late, cIn, cOut>>

\* default: go on to sem <- struct{}{}.
RunSelectDefault ==
    /\ Alive
    /\ runPc = "select"
    /\ SelectDefault
    /\ runPc' = "acquire"
    /\ UNCHANGED <<mainPc, threads, usernames, file, idx, sem, wg, stopChan, wpc,
                   path, step, resultsMu, results, processed, title, sigChan,
                   sigPc, launched, stopAt,
                   fatal, late, cIn, cOut>>

\* Mutants of SemHasRoom: a channel without capacity limit, one with one slot
\* too many, one with one slot too few and one whose capacity is at least one.
SemUnbounded == TRUE
SemOneTooMany == sem <= threads
SemOneTooFew == sem < threads - 1
SemAtLeastOne == sem < threads \/ sem = 0

\* Whether a send on sem (a channel of capacity uc.threads) can proceed.
SemHasRoom == sem < threads

\* sem <- struct{}{}: blocks while the channel is full.
RunAcquire ==
    /\ Alive
    /\ runPc = "acquire"
    /\ SemHasRoom
    /\ sem' = sem + 1
    /\ runPc' = "spawn"
    /\ UNCHANGED <<mainPc, threads, usernames, file, idx, wg, stopChan, wpc, path,
                   step, resultsMu, results, processed, title, sigChan, sigPc,
                   launched, stopAt,
                   fatal, late, cIn, cOut>>

\* Mutant of NextIdx: the loop skips every other username.
NextIdxSkips(i) == i + 2

\* The index the range loop of Run moves to after index i.
NextIdx(i) == i + 1

\* uc.wg.Add(1); go func(u string){...}(username); the loop moves to the next username.
RunSpawn ==
    /\ Alive
    /\ runPc = "spawn"
    /\ wg' = wg + 1
    /\ wpc' = [wpc EXCEPT ![idx] = "fetch"]
    /\ launched' = Append(launched, usernames[idx])
    /\ idx' = NextIdx(idx)
    /\ runPc' = LoopPc(NextIdx(idx), Len(usernames))
    /\ late' = IF stopChan = "closed" THEN late + 1 ELSE late
    /\ UNCHANGED <<mainPc, threads, usernames, file, sem, stopChan, path, step,
                   resultsMu, results, processed, title, sigChan, sigPc,
                   stopAt, fatal, cIn, cOut>>

\* Mutant of WaitDone: Run does not wait for its goroutines.
WaitDoneNever == TRUE

\* Whether uc.wg.Wait() can return: the counter is zero.
WaitDone == wg = 0

\* uc.wg.Wait() after the loop: blocks until the counter is zero.
RunWait ==
    /\ Alive
    /\ runPc = "wait"
    /\ WaitDone
    /\ runPc' = "returned"
    /\ UNCHANGED <<mainPc, threads, usernames, file, idx, sem, wg, stopChan, wpc,
                   path, step, resultsMu, results, processed, title, sigChan,
                   sigPc, launched, stopAt,
                   fatal, late, cIn, cOut>>

\* ------------------------------------------- the goroutine of one username

\* checkUsername up to the point where the result is known: http.NewRequest,
\* uc.client.Do, the final URL test, goquery and the status span decide the path.
Fetch(i) ==
    /\ Alive
    /\ wpc[i] = "fetch"
    /\ \E p \in Paths :
          /\ path' = [path EXCEPT ![i] = NextPath(p, 0)]
          /\ step' = [step EXCEPT ![i] = NextStep(p, 0)]
          /\ wpc' = [wpc EXCEPT ![i] = NextPc(p, 0)]
    /\ UNCHANGED <<mainPc, threads, usernames, file, runPc, idx, sem, wg, stopChan,
                   resultsMu, results, processed, title, sigChan, sigPc,
                   launched, stopAt,
                   fatal, late, cIn, cOut>>

\* Mutant of ResultsMuFree: logResult takes no lock.
ResultsMuIgnored == TRUE

\* Whether uc.resultsMu.Lock() can proceed.
ResultsMuFree == resultsMu = 0

\* logResult: uc.resultsMu.Lock() and uc.results = append(uc.results, result).
LogResult(i) ==
    /\ Alive
    /\ wpc[i] = "logResult"
    /\ ResultsMuFree
    /\ resultsMu' = i
    /\ results' = Append(results, Line(usernames[i], path[i]))
    /\ wpc' = [wpc EXCEPT ![i] = "appendToFile"]
    /\ UNCHANGED <<mainPc, threads, usernames, file, runPc, idx, sem, wg, stopChan,
                   path, step, processed, title, sigChan, sigPc, launched,
                   stopAt,
                   fatal, late, cIn, cOut>>

\* Mutant of OnWriteError: the goroutine is abandoned on a write error, only its
\* deferred uc.wg.Done() still runs.
OnWriteErrorAbandons(pc) == "wgDone"

\* Where the goroutine goes when appendToFile returned an error, pc being where
\* it goes otherwise: the error is logged and logResult returns as usual.
OnWriteError(pc) == pc

\* logResult: appendToFile(uc.outputFile, result), which appends the line or
\* fails (the error is only logged), then the deferred uc.resultsMu.Unlock().
AppendToFile(i) ==
    /\ Alive
    /\ wpc[i] = "appendToFile"
    /\ \E ok \in BOOLEAN :
          /\ file' = IF ok THEN Append(file, Line(usernames[i], path[i])) ELSE file
          /\ wpc' = [wpc EXCEPT ![i] = IF ok THEN NextPc(path[i], step[i] + 1)
                                       ELSE OnWriteError(NextPc(path[i], step[i] + 1))]
    /\ resultsMu' = 0
    /\ path' = [path EXCEPT ![i] = NextPath(@, step[i] + 1)]
    /\ step' = [step EXCEPT ![i] = NextStep(path[i], @ + 1)]
    /\ UNCHANGED <<mainPc, threads, usernames, runPc, idx, sem, wg, stopChan,
                   results, processed, title, sigChan, sigPc, launched,
                   stopAt,
                   fatal, late, cIn, cOut>>

\* incrementProcessed: uc.processed++ under uc.processedMu.
IncrementProcessed(i) ==
    /\ Alive
    /\ wpc[i] = "incrementProcessed"
    /\ processed' = processed + 1
    /\ path' = [path EXCEPT ![i] = NextPath(@, step[i] + 1)]
    /\ step' = [step EXCEPT ![i] = NextStep(path[i], @ + 1)]
    /\ wpc' = [wpc EXCEPT ![i] = NextPc(path[i], step[i] + 1)]
    /\ UNCHANGED <<mainPc, threads, usernames, file, runPc, idx, sem, wg, stopChan,
                   resultsMu, results, title, sigChan, sigPc,
                   launched, stopAt,
                   fatal, late, cIn, cOut>>

\* <-sem after checkUsername has returned.
Release(i) ==
    /\ Alive
    /\ wpc[i] = "release"
    /\ sem > 0
    /\ sem' = sem - 1
    /\ wpc' = [wpc EXCEPT ![i] = "wgDone"]
    /\ UNCHANGED <<mainPc, threads, usernames, file, runPc, idx, wg, stopChan, path,
                   step, resultsMu, results, processed, title, sigChan, sigPc,
                   launched, stopAt,
                   fatal, late, cIn, cOut>>

\* The deferred uc.wg.Done(): the goroutine ends.
WgDone(i) ==
    /\ Alive
    /\ wpc[i] = "wgDone"
    /\ wg' = wg - 1
    /\ wpc' = [wpc EXCEPT ![i] = "done"]
    /\ UNCHANGED <<mainPc, threads, usernames, file, runPc, idx, sem, stopChan, path,
                   step, resultsMu, results, processed, title, sigChan, sigPc,
                   launched, stopAt,
                   fatal, late, cIn, cOut>>

\* ------------------------------------------------------ progress updater

\* Mutant of GetProgress: the snapshot also resets the counter it reports.
GetProgressResets ==
    /\ Alive
    /\ title' = <<processed, Len(usernames)>>
    /\ processed' = 0
    /\ UNCHANGED <<mainPc, threads, usernames, file, runPc, idx, sem, wg, stopChan,
                   wpc, path, step, resultsMu, results, sigChan, sigPc,
                   launched, stopAt, fatal, late, cIn, cOut>>

\* A tick: GetProgress() reads processed and len(usernames) under processedMu
\* and the window title is set from them.
GetProgress ==
    /\ Alive
    /\ title' = <<processed, Len(usernames)>>
    /\ UNCHANGED <<mainPc, threads, usernames, file, runPc, idx, sem, wg, stopChan,
                   wpc, path, step, resultsMu, results, processed, sigChan, sigPc,
                   launched, stopAt,
                   fatal, late, cIn, cOut>>

\* -------------------------------------------------------- signal handling

\* Capacity of sigChan: make(chan os.Signal, 1).
SigChanCap == 1

\* SIGINT or SIGTERM reaches the process: signal.Notify sends it to sigChan
\* without blocking, so it is dropped when the buffer is full.
SignalDelivered ==
    /\ Alive
    /\ sigChan' = IF sigChan < SigChanCap THEN sigChan + 1 ELSE sigChan
    /\ UNCHANGED <<mainPc, threads, usernames, file, runPc, idx, sem, wg, stopChan,
                   wpc, path, step, resultsMu, results, processed, title, sigPc,
                   launched, stopAt,
                   fatal, late, cIn, cOut>>

\* close(c) on a channel: closing a closed channel panics.
CloseChan(c) == IF c = "open" THEN "closed" ELSE "panicked"

\* Mutant of HandlerNextPc: the handler loops and receives the next signal too.
HandlerLoops == "recv"

\* Where the handler goroutine goes after close(checker.stopChan): it ends.
HandlerNextPc == "done"

\* sig := <-sigChan, logger.Warning and close(checker.stopChan); the handler
\* goroutine then ends.
HandleSignal ==
    /\ Alive
    /\ sigPc = "recv"
    /\ sigChan > 0
    /\ sigChan' = sigChan - 1
    /\ stopChan' = CloseChan(stopChan)
    /\ stopAt' = idx
    /\ sigPc' = HandlerNextPc
    /\ UNCHANGED <<mainPc, threads, usernames, file, runPc, idx, sem, wg, wpc, path,
                   step, resultsMu, results, processed, title, launched,
                   fatal, late, cIn, cOut>>

Workers == DOMAIN wpc

Next ==
    \/ ClearOutputOk
    \/ ClearOutputFail
    \/ ReadLinesOk
    \/ ReadLinesFail
    \/ MainReturn
    \/ RunSelectStop
    \/ RunSelectDefault
    \/ RunAcquire
    \/ RunSpawn
    \/ RunWait
    \/ \E i \in Workers : Fetch(i)
    \/ \E i \in Workers : LogResult(i)
    \/ \E i \in Workers : AppendToFile(i)
    \/ \E i \in Workers : IncrementProcessed(i)
    \/ \E i \in Workers : Release(i)
    \/ \E i \in Workers : WgDone(i)
    \/ SignalDelivered
    \/ HandleSignal

\* main, the dispatcher, its goroutines and the signal handler.
Spec == Init /\ [][Next]_vars

NextProgress ==
    \/ Next
    \/ GetProgress

\* The same together with the ticks of the progress updater.
SpecProgress == Init /\ [][NextProgress]_vars

\* The steps of Run, and the steps of the goroutine of username i.
RunStep == RunSelectStop \/ RunSelectDefault \/ RunAcquire \/ RunSpawn \/ RunWait

WorkerStep(i) ==
    /\ i \in Workers
    /\ \/ Fetch(i)
       \/ LogResult(i)
       \/ AppendToFile(i)
       \/ IncrementProcessed(i)
       \/ Release(i)
       \/ WgDone(i)

\* The Go scheduler runs every goroutine that can run, and every request ends
\* (the client has a timeout): Run and each goroutine it started keep moving.
Fairness ==
    /\ WF_vars(RunStep)
    /\ \A i \in 1..MaxLen : WF_vars(WorkerStep(i))

\* Spec under fair scheduling.
SpecLive == Init /\ [][Next]_vars /\ Fairness

\* ------------------------------------------- checkUsername: the result line

\* Strings are sequences of characters; a literal of the source that is never
\* taken apart (a format's fixed text, an error's message) is one element.
UpperCase == <<"A", "B", "C", "D", "E", "F", "G", "H", "I", "J", "K", "L", "M",
               "N", "O", "P", "Q", "R", "S", "T", "U", "V", "W", "X", "Y", "Z">>
LowerCase == <<"a", "b", "c", "d", "e", "f", "g", "h", "i", "j", "k", "l", "m",
               "n", "o", "p", "q", "r", "s", "t", "u", "v", "w", "x", "y", "z">>

IsUpper(c) == \E k \in DOMAIN UpperCase : UpperCase[k] = c
IsLower(c) == \E k \in DOMAIN LowerCase : LowerCase[k] = c
IsLetter(c) == IsUpper(c) \/ IsLower(c)
IsSpace(c) == c \in {" ", "\t", "\n", "\r"}

ToLowerChar(c) ==
    IF IsUpper(c) THEN LowerCase[CHOOSE k \in DOMAIN UpperCase : UpperCase[k] = c] ELSE c
ToUpperChar(c) ==
    IF IsLower(c) THEN UpperCase[CHOOSE k \in DOMAIN LowerCase : LowerCase[k] = c] ELSE c

\* Mutant of ToLower: the status text is compared as it is written on the page.
ToLowerKeepsCase(str) == str

\* strings.ToLower
ToLower(str) == [k \in DOMAIN str |-> ToLowerChar(str[k])]

\* strings.Title: the first letter of every word in upper case.
Title(str) ==
    [k \in DOMAIN str |->
        IF k = 1 \/ ~IsLetter(str[k - 1]) THEN ToUpperChar(str[k]) ELSE str[k]]

RECURSIVE TrimLeft(_)
TrimLeft(str) ==
    IF str # <<>> /\ IsSpace(Head(str)) THEN TrimLeft(Tail(str)) ELSE str

RECURSIVE TrimRight(_)
TrimRight(str) ==
    IF str # <<>> /\ IsSpace(str[Len(str)])
    THEN TrimRight(SubSeq(str, 1, Len(str) - 1)) ELSE str

\* strings.TrimSpace
TrimSpace(str) == TrimRight(TrimLeft(str))

\* strings.TrimPrefix
TrimPrefix(str, pre) ==
    IF Len(str) >= Len(pre) /\ SubSeq(str, 1, Len(pre)) = pre
    THEN SubSeq(str, Len(pre) + 1, Len(str)) ELSE str

RECURSIVE Concat(_)
\* The text of a selection: the texts of its elements, one after the other.
Concat(texts) == IF texts = <<>> THEN <<>> ELSE Head(texts) \o Concat(Tail(texts))

\* nil
NoErr == <<>>

\* fmt.Sprintf("https://fragment.com/username/%s", username)
PageURL(u) == <<"https://fragment.com/username/">> \o u

\* fmt.Sprintf("https://fragment.com/?query=%s", username)
QueryURL(u) == <<"https://fragment.com/?query=">> \o u

\* The status texts checkUsername knows.
KnownStatuses == {<<"s", "o", "l", "d">>,
                  <<"a", "v", "a", "i", "l", "a", "b", "l", "e">>,
                  <<"t", "a", "k", "e", "n">>}

\* The line checkUsername passes to logResult for the username as read from the
\* input and the response r: the error of http.NewRequest and of client.Do, the
\* final URL, the error of goquery and the texts of the status spans found.
ResultLine(raw, r) ==
    LET username == TrimSpace(TrimPrefix(raw, <<"@">>))
        status == ToLower(TrimSpace(Concat(r.spans)))
    IN  IF r.newRequestErr # NoErr
        THEN <<"@">> \o username \o <<" | Error: ">> \o r.newRequestErr \o <<"\n">>
        ELSE IF r.doErr # NoErr
        THEN <<"@">> \o username \o <<" | Error: ">> \o r.doErr \o <<"\n">>
        ELSE IF r.finalURL = QueryURL(username)
        THEN <<"@">> \o username \o <<" | Free\n">>
        ELSE IF r.parseErr # NoErr
        THEN <<"@">> \o username \o <<" | Error parsing HTML: ">> \o r.parseErr \o <<"\n">>
        ELSE IF Len(r.spans) > 0
        THEN IF status \in KnownStatuses
             THEN <<"@">> \o username \o <<" | ">> \o Title(status) \o <<"\n">>
             ELSE <<"@">> \o username \o <<" | Unknown status (">> \o status \o <<")\n">>
        ELSE <<"@">> \o username \o <<" | Status not found\n">>

\* Usernames as read from the input file.
RawNames == {<<"@", "a">>, <<"a">>, <<"b">>}

\* Texts of status spans a page may hold.
SpanTexts == {<<"T", "a", "k", "e", "n">>,
              <<" ", "s", "o", "l", "d", "\n">>,
              <<"A", "V", "A", "I", "L", "A", "B", "L", "E">>,
              <<"w", "e", "i", "r", "d">>,
              <<>>}

\* Responses to one request.
Responses ==
    [newRequestErr : {NoErr, <<"invalid URL">>},
     doErr : {NoErr, <<"timeout">>},
     finalURL : {QueryURL(<<"a">>), QueryURL(<<"b">>), PageURL(<<"a">>)},
     parseErr : {NoErr, <<"unexpected EOF">>},
     spans : {<<>>} \cup {<<t>> : t \in SpanTexts}
             \cup {<<<<"S", "o", "l", "d">>, <<"T", "a", "k", "e", "n">>>>}]

\* One username and the response to its request, nothing else running.
InitClassify ==
    /\ cIn \in [name : RawNames, resp : Responses]
    /\ cOut = <<>>
    /\ mainPc = "classify"
    /\ threads = 0
    /\ usernames = <<>>
    /\ file = <<>>
    /\ runPc = "idle"
    /\ idx = 0
    /\ sem = 0
    /\ wg = 0
    /\ stopChan = "open"
    /\ wpc = <<>>
    /\ path = <<>>
    /\ step = <<>>
    /\ resultsMu = 0
    /\ results = <<>>
    /\ processed = 0
    /\ title = <<>>
    /\ sigChan = 0
    /\ sigPc = "idle"
    /\ launched = <<>>
    /\ stopAt = 0
    /\ fatal = "none"
    /\ late = 0

\* checkUsername builds its result line.
Classify ==
    /\ mainPc = "classify"
    /\ cOut = <<>>
    /\ cOut' = ResultLine(cIn.name, cIn.resp)
    /\ UNCHANGED <<mainPc, threads, usernames, file, runPc, idx, sem, wg, stopChan,
                   wpc, path, step, resultsMu, results, processed, title, sigChan,
                   sigPc, launched, stopAt, fatal, late, cIn>>

\* The result line of checkUsername over the usernames and responses above.
SpecClassify == InitClassify /\ [][Classify]_vars

\* ------------------------------------------------------------ properties

Total == Len(usernames)

\* The positions of a goroutine from its start to its <-sem: it holds a slot.
HoldsSlot(i) ==
    wpc[i] \in {"fetch", "logResult", "appendToFile", "incrementProcessed", "release"}

\* The usernames whose goroutine has been started.
Dispatched == {i \in Workers : wpc[i] # "none"}

\* The goroutines whose checkUsername has returned.
Returned == {i \in Workers : wpc[i] \in {"release", "wgDone", "done"}}

\* The goroutines that have appended their line and not yet counted it.
Recording == {i \in Workers : wpc[i] \in {"appendToFile", "incrementProcessed"}}

\* Number of lines of uc.results for username u.
LinesOf(u) == Cardinality({k \in 1..Len(results) : results[k] = Line(u, "none")})

\* C1: for a non-empty list and threads >= 1, when Run has returned and stopChan
\* was never closed, processed equals the number of usernames.
ThmC1 ==
    (runPc = "returned" /\ stopChan = "open" /\ threads >= 1 /\ Total >= 1)
        => processed = Total

WitC1 ==
    /\ runPc = "returned"
    /\ stopChan = "open"
    /\ threads = 1
    /\ Total = 2
    /\ processed = 2

\* C2: for threads >= 1, the goroutines started that have not yet received from
\* sem are never more than threads.
ThmC2 ==
    threads >= 1 => Cardinality({i \in Workers : HoldsSlot(i)}) <= threads

\* The pool is saturated and the loop is blocked at sem <- for the next username.
WitC2 ==
    /\ threads = 1
    /\ Total = 2
    /\ runPc = "acquire"
    /\ idx = 2
    /\ wpc[1] = "fetch"
    /\ sem = threads

\* C3 as claimed: when Run has returned, every goroutine it started has finished
\* (line recorded, processed incremented, slot released, wg.Done called).
CexC3 ==
    runPc = "returned" => \A i \in Dispatched : wpc[i] = "done"

\* C4: once stopChan is closed, no username after the index the loop was at is
\* ever dispatched, and an iteration that finds it closed at its select ends the
\* loop without sending on sem or starting a goroutine.
ThmC4 ==
    /\ [](stopChan = "closed" => \A i \in Workers : i > stopAt => wpc[i] = "none")
    /\ [][(stopChan = "closed" /\ runPc = "select")
            => /\ runPc' \in {"select", "returned"}
               /\ sem' <= sem
               /\ launched' = launched]_vars

\* Cancellation cut the list: the first username was dispatched, the second never.
WitC4 ==
    /\ stopChan = "closed"
    /\ runPc = "returned"
    /\ Total = 2
    /\ stopAt = 2
    /\ wpc[1] # "none"
    /\ wpc[2] = "none"

\* C5 as claimed: when Run has returned, with or without cancellation, results
\* holds exactly one line for each dispatched username and none for the others.
CexC5 ==
    runPc = "returned" =>
        /\ Len(results) = Cardinality(Dispatched)
        /\ \A i \in Workers :
              LinesOf(usernames[i]) = IF i \in Dispatched THEN 1 ELSE 0

\* C6: on every path of checkUsername the goroutine records its line exactly once
\* and then increments processed exactly once: no line before logResult, one line
\* from then on, and processed counts exactly the goroutines whose checkUsername
\* has returned.
ThmC6 ==
    /\ \A i \in Workers :
          /\ wpc[i] \in {"none", "fetch", "logResult"} => LinesOf(usernames[i]) = 0
          /\ wpc[i] \notin {"none", "fetch", "logResult"} => LinesOf(usernames[i]) = 1
          /\ wpc[i] = "incrementProcessed" => path[i] \in Paths /\ step[i] = 1
    /\ processed = Cardinality(Returned)

\* An error path between its record and its increment, after another unit finished.
WitC6 ==
    /\ Total = 2
    /\ wpc[1] = "done"
    /\ wpc[2] = "incrementProcessed"
    /\ path[2] = "ParseErr"
    /\ LinesOf(usernames[2]) = 1
    /\ processed = 1

\* C7: with threads = 1 the goroutine of username i+1 is started only after the
\* goroutine of username i has received from sem, and an uncancelled run over two
\* usernames returns with exactly 2 lines, processed = 2 and total = 2.
ThmC7 ==
    threads = 1 =>
        /\ \A i \in Workers :
              (i + 1 \in Workers /\ wpc[i + 1] # "none") => wpc[i] \in {"wgDone", "done"}
        /\ (Total = 2 /\ runPc = "returned" /\ stopChan = "open")
              => (Len(results) = 2 /\ processed = 2)

WitC7 ==
    /\ threads = 1
    /\ Total = 2
    /\ runPc = "returned"
    /\ stopChan = "open"
    /\ Len(results) = 2
    /\ processed = 2
    /\ launched = usernames

\* C8: the usernames dispatched so far are always a prefix of the input list, in
\* list order, each once; the whole list when an uncancelled Run has returned.
ThmC8 ==
    /\ Len(launched) <= Total
    /\ launched = SubSeq(usernames, 1, Len(launched))
    /\ Dispatched = 1..Len(launched)
    /\ (runPc = "returned" /\ stopChan = "open") => launched = usernames

\* A proper prefix after cancellation.
WitC8 ==
    /\ runPc = "returned"
    /\ stopChan = "closed"
    /\ Total = 2
    /\ launched = <<usernames[1]>>

\* C9: 0 <= processed <= total in every state, and processed never decreases,
\* whatever the interleaving of increments and GetProgress.
ThmC9 ==
    /\ [](processed \in Nat /\ processed <= Total)
    /\ [][processed' >= processed]_vars

\* A snapshot taken between the two increments of a run over two usernames.
WitC9 ==
    /\ Total = 2
    /\ processed = 2
    /\ title = <<1, 2>>

\* C10: the lines of results are those of the units that have produced their
\* outcome: processed <= number of lines <= number of dispatched usernames, and
\* the number of lines equals processed when no unit is between its record and
\* its increment.
ThmC10 ==
    /\ processed <= Len(results)
    /\ Len(results) <= Cardinality(Dispatched)
    /\ Recording = {} => Len(results) = processed

\* One unit has counted its line, the other has recorded and not yet counted.
WitC10 ==
    /\ Cardinality(Dispatched) = 2
    /\ Len(results) = 2
    /\ processed = 1
    /\ Recording # {}

\* C11: stopChan, once closed, stays closed; it is closed by the handler
\* goroutine only, which then ends, so no number of signals closes it a second
\* time (which would panic).
ThmC11 ==
    /\ [](stopChan \in {"open", "closed"})
    /\ [][stopChan = "closed" => stopChan' = "closed"]_vars
    /\ [][stopChan' # stopChan => sigPc = "recv"]_vars
    /\ [](sigPc = "done" => stopChan = "closed")

\* A second signal arrived after the first one closed stopChan: it stays buffered.
WitC11 ==
    /\ stopChan = "closed"
    /\ sigPc = "done"
    /\ sigChan = 1

\* C12: when the output file cannot be cleared or the input cannot be read, the
\* process has exited with Run never entered: nothing dispatched, no result
\* line, processed = 0; and a startup step fails only before any dispatch.
ThmC12 ==
    /\ [](fatal # "none" =>
            /\ mainPc = "exited"
            /\ runPc = "idle"
            /\ launched = <<>>
            /\ Dispatched = {}
            /\ results = <<>>
            /\ processed = 0)
    /\ [][fatal' # fatal => (launched = <<>> /\ runPc = "idle" /\ fatal = "none")]_vars

\* The output file was cleared and reading the input failed.
WitC12 ==
    /\ fatal = "input"
    /\ mainPc = "exited"
    /\ file = <<>>

\* Whether the output file holds the line of username u.
InFile(u) == \E k \in 1..Len(file) : file[k] = Line(u, "none")

\* The goroutines whose appendToFile returned an error.
WriteFailed ==
    {i \in Workers : wpc[i] \in {"incrementProcessed", "release", "wgDone", "done"}
                     /\ ~InFile(usernames[i])}

\* The elements of sem: one per goroutine that holds a slot, and one for the
\* goroutine Run is about to start.
SlotsInUse ==
    Cardinality({i \in Workers : HoldsSlot(i)}) + (IF runPc = "spawn" THEN 1 ELSE 0)

\* C13: a goroutine whose write to the output file failed still has its line in
\* uc.results, has left logResult with the mutex released, goes on to
\* incrementProcessed and to <-sem like any other, and leaves no slot occupied,
\* so that Run goes on with the remaining usernames.
ThmC13 ==
    /\ \A i \in WriteFailed :
          /\ LinesOf(usernames[i]) = 1
          /\ resultsMu # i
          /\ wpc[i] # "incrementProcessed" => i \in Returned
    /\ processed = Cardinality(Returned)
    /\ sem = SlotsInUse

\* The first username's write failed; it was counted, its slot was reused by the
\* second username.
WitC13 ==
    /\ threads = 1
    /\ Total = 2
    /\ 1 \in WriteFailed
    /\ wpc[1] = "done"
    /\ wpc[2] = "fetch"
    /\ results = <<Line(usernames[1], "none")>>
    /\ file = <<>>
    /\ processed = 1

\* C14: a step that sets the title from GetProgress changes nothing else
\* (processed, the usernames, results, the output file, sem, the wait group, the
\* mutex, the goroutines and Run are as before), and a snapshot taken when the
\* title already shows the current counters gives the same title again.
ThmC14 ==
    /\ [][title' # title =>
            UNCHANGED <<processed, usernames, results, file, sem, wg, resultsMu,
                        wpc, path, step, stopChan, runPc, idx, mainPc>>]_vars
    /\ [][title = <<processed, Total>> => title' = title]_vars
    /\ [](title # <<>> => (title[1] <= processed /\ title[2] = Total))

\* A snapshot showing the one increment made so far.
WitC14 ==
    /\ Total = 2
    /\ processed = 1
    /\ title = <<1, 2>>
    /\ Len(results) = 2

\* The handle of the username given to the classification, written out.
C15Handle == IF cIn.name = <<"b">> THEN <<"b">> ELSE <<"a">>

\* The status column expected for each selection of status spans, written out.
C15Status ==
    LET sp == cIn.resp.spans
    IN  CASE sp = <<<<"T", "a", "k", "e", "n">>>> -> <<" | ", "T", "a", "k", "e", "n", "\n">>
          [] sp = <<<<" ", "s", "o", "l", "d", "\n">>>> -> <<" | ", "S", "o", "l", "d", "\n">>
          [] sp = <<<<"A", "V", "A", "I", "L", "A", "B", "L", "E">>>> ->
                <<" | ", "A", "v", "a", "i", "l", "a", "b", "l", "e", "\n">>
          [] sp = <<<<"w", "e", "i", "r", "d">>>> ->
                <<" | Unknown status (", "w", "e", "i", "r", "d", ")\n">>
          [] sp = <<<<>>>> -> <<" | Unknown status (", ")\n">>
          [] sp = <<<<"S", "o", "l", "d">>, <<"T", "a", "k", "e", "n">>>> ->
                <<" | Unknown status (", "s", "o", "l", "d", "t", "a", "k", "e", "n", ")\n">>
          [] sp = <<>> -> <<" | Status not found\n">>

\* C15: every response gets exactly one result line, by fixed precedence: a
\* request error gives the Error line; else a final URL equal to the search URL
\* of the handle gives Free, whatever the body; else a parse failure gives the
\* parse error line; else no status span gives "Status not found"; else the
\* trimmed lower-cased text gives Sold, Available or Taken when it is one of the
\* three, and "Unknown status (<text>)" otherwise.
ThmC15 ==
    cOut # <<>> =>
        LET r == cIn.resp
            head == <<"@">> \o C15Handle
            sent == r.newRequestErr = NoErr /\ r.doErr = NoErr
            free == r.finalURL = <<"https://fragment.com/?query=">> \o C15Handle
        IN  /\ r.newRequestErr # NoErr
                => cOut = head \o <<" | Error: ", "invalid URL", "\n">>
            /\ (r.newRequestErr = NoErr /\ r.doErr # NoErr)
                => cOut = head \o <<" | Error: ", "timeout", "\n">>
            /\ (sent /\ free) => cOut = head \o <<" | Free\n">>
            /\ (sent /\ ~free /\ r.parseErr # NoErr)
                => cOut = head \o <<" | Error parsing HTML: ", "unexpected EOF", "\n">>
            /\ (sent /\ ~free /\ r.parseErr = NoErr) => cOut = head \o C15Status

\* "@a" answered by a page whose status span reads AVAILABLE.
WitC15 ==
    /\ cIn.name = <<"@", "a">>
    /\ cIn.resp.spans = <<<<"A", "V", "A", "I", "L", "A", "B", "L", "E">>>>
    /\ cOut = <<"@", "a", " | ", "A", "v", "a", "i", "l", "a", "b", "l", "e", "\n">>

\* C16: with threads >= 1, under fair scheduling, Run entered eventually returns;
\* its loop can always move at the select and at the start of a goroutine, is
\* held at sem <- only while sem is full, and is always eventually let through.
ThmC16 ==
    /\ (threads >= 1 /\ Alive) ~> (runPc = "returned")
    /\ [](Alive /\ runPc \in {"select", "spawn"} => ENABLED RunStep)
    /\ [](Alive /\ runPc = "acquire" /\ ~ENABLED RunStep => sem = threads)
    /\ (threads >= 1 /\ Alive /\ runPc = "acquire") ~> (runPc # "acquire")

\* Run returned after its loop had been held at a full sem.
WitC16 ==
    /\ threads = 1
    /\ Total = 2
    /\ runPc = "returned"
    /\ stopChan = "open"
    /\ wpc[2] = "done"

IsPrefix(a, b) == Len(a) <= Len(b) /\ SubSeq(b, 1, Len(a)) = a

RECURSIVE IsSubseq(_, _)
\* Whether the elements of a occur in b in the same order.
IsSubseq(a, b) ==
    IF a = <<>> THEN TRUE
    ELSE IF b = <<>> THEN FALSE
    ELSE IF Head(a) = Head(b) THEN IsSubseq(Tail(a), Tail(b))
    ELSE IsSubseq(a, Tail(b))

\* The lines of uc.results whose appendToFile has returned: all but the one the
\* holder of the mutex is writing.
Persisted ==
    IF resultsMu # 0 THEN SubSeq(results, 1, Len(results) - 1) ELSE results

\* C17: once the output file has been cleared at startup it only grows, each
\* state's content extending the previous one; its lines are lines of uc.results
\* in the same order, and when no write failed it equals the lines recorded so
\* far, in completion order.
ThmC17 ==
    /\ [][mainPc # "clear_output" => IsPrefix(file, file')]_vars
    /\ [](runPc # "idle" =>
            /\ IsSubseq(file, Persisted)
            /\ WriteFailed = {} => file = Persisted)

\* Two units recorded in the order opposite to their dispatch, both persisted.
WitC17 ==
    /\ threads = 2
    /\ Total = 2
    /\ resultsMu = 0
    /\ results = <<Line(usernames[2], "none"), Line(usernames[1], "none")>>
    /\ file = results

\* C18: the loop of Run is past its select (at sem <- or at the go statement)
\* with stopChan closed only for the username whose select had already taken
\* default, and it goes on to start that goroutine; over a whole run at most one
\* goroutine is started after stopChan was closed, and it is the one for the
\* username the loop was at when the channel was closed.
ThmC18 ==
    /\ late <= 1
    /\ late = 1 =>
          /\ stopChan = "closed"
          /\ Len(launched) = stopAt
          /\ launched[stopAt] = usernames[stopAt]
    /\ (stopChan = "closed" /\ runPc \in {"acquire", "spawn"}) =>
          /\ late = 0
          /\ idx = stopAt

\* The second username was started after stopChan had been closed, the single
\* slot having been held by the first when the loop reached sem <-.
WitC18 ==
    /\ threads = 1
    /\ Total = 2
    /\ late = 1
    /\ stopAt = 2
    /\ wpc[2] = "fetch"
    /\ runPc = "wait"

\* The order of the positions of one goroutine.
StepOrder ==
    {<<"none", "fetch">>, <<"fetch", "logResult">>, <<"logResult", "appendToFile">>,
     <<"appendToFile", "incrementProcessed">>, <<"incrementProcessed", "release">>,
     <<"release", "wgDone">>, <<"wgDone", "done">>}

\* Number of <-sem receives so far: the sends (one per started goroutine, one
\* more when the loop stands at the go statement) less the slots still taken.
Releases == Cardinality(Dispatched) + (IF runPc = "spawn" THEN 1 ELSE 0) - sem

\* C19: each goroutine moves from its record (logResult with its file write) to
\* incrementProcessed, then to <-sem, then to wg.Done, in that order; so the
\* number of started goroutines less processed never exceeds threads, and the
\* number of slots given back never exceeds processed: a slot taken again was
\* given back by a goroutine whose increment had already been made.
ThmC19 ==
    /\ [][\A i \in Workers : wpc'[i] # wpc[i] => <<wpc[i], wpc'[i]>> \in StepOrder]_vars
    /\ [](Cardinality(Dispatched) - processed <= threads)
    /\ [](Releases <= processed)
    /\ [](\A i \in Workers : wpc[i] \in {"release", "wgDone", "done"} =>
              LinesOf(usernames[i]) = 1)

\* The single slot is taken again by the second username after the first has
\* counted and given it back, while the first has not yet called wg.Done.
WitC19 ==
    /\ threads = 1
    /\ Total = 2
    /\ wpc[1] = "wgDone"
    /\ wpc[2] = "fetch"
    /\ processed = 1
    /\ sem = 1

\* C20: threads is used as the capacity of sem without validation. With
\* threads = 0 and a non-empty list no goroutine is ever started and processed
\* stays 0; Run returns only if stopChan was closed before its first select, and
\* otherwise stays at its first sem <- for ever, so with stopChan never closed it
\* never returns. With an empty list, whatever threads is, Run goes straight to
\* wg.Wait with nothing started, and that Wait can return at once.
ThmC20 ==
    /\ [](threads = 0 =>
            /\ launched = <<>>
            /\ processed = 0
            /\ sem = 0
            /\ runPc # "idle" => idx = 1)
    /\ []((threads = 0 /\ Total >= 1 /\ stopChan = "open") => runPc # "returned")
    /\ [][(threads = 0 /\ runPc = "acquire") => runPc' = "acquire"]_vars
    /\ []((Total = 0 /\ runPc # "idle") =>
            /\ runPc \in {"wait", "returned"}
            /\ launched = <<>>
            /\ wg = 0
            /\ processed = 0)
    /\ []((Alive /\ Total = 0 /\ runPc = "wait") => ENABLED RunWait)

\* Run stands at its first sem <- with a channel of capacity 0, a non-empty list
\* and stopChan open.
WitC20 ==
    /\ threads = 0
    /\ Total = 2
    /\ runPc = "acquire"
    /\ stopChan = "open"
    /\ sigPc = "recv"
    /\ sigChan = 0

====
